---- MODULE Spec2Model ----
(***************************************************************************)
(* The media acquisition job engine of artemis: the `download` command of  *)
(* cogs/media.py, its monitor task, the scratch directory data/temp, the   *)
(* max_concurrency guard and the per-user cooldown of the command.         *)
(***************************************************************************)
EXTENDS Integers, Sequences, FiniteSets, TLC

VARIABLES sem, bucket, now, verdict, job, fs, wrote, mon, audio, info, music

vars == <<sem, bucket, now, verdict, job, fs, wrote, mon, audio, info, music>>

-----------------------------------------------------------------------------
(* Bounds of the model *)

\* the clock stops at MaxTime seconds
MaxTime == 40

\* the command contexts (invocations) that can be alive at once
Ctx == {1, 2}
Users == {"owner", "user"}

-----------------------------------------------------------------------------
(* Program constants *)

\* @commands.max_concurrency(1)
Number == 1
\* @commands.cooldown(1, 30, commands.BucketType.user)
Rate == 1
Per == 30
\* the clock advances in steps of two thirds of the cooldown period: a
\* request can come inside the period and after it
TickStep == (2 * Per) \div 3
MAX_DISCORD_SIZE == 25 * 1024 * 1024
MAX_LITTERBOX_SIZE == 1024 * 1024 * 1024

\* files yt-dlp can leave in data/temp for one media id: the output id.ext
\* (written in place, "nopart": True) and an intermediate stream file of a
\* merged format ("248+251/...")
Files == {"out", "tmp"}
NoFile == "nofile"
NoSize == 0 - 1

\* sizes the produced artifact can have (the tier boundaries and a small file)
Sizes == {5 * 1024 * 1024, MAX_DISCORD_SIZE, MAX_DISCORD_SIZE + 1,
          MAX_LITTERBOX_SIZE, MAX_LITTERBOX_SIZE + 1}

\* flags.trim after map(parse_duration, trim.split("-")): no trim flag, a
\* tuple that is not two durations, or <<ss, to>> in seconds
NoTrim == <<>>
BadTrim == <<0>>

\* line 466: parse_duration gives seconds with a fraction; the bounds of a
\* window are counted in halves of a second
PerSecond == 2
Sec(n) == n * PerSecond

\* the windows of 30 s, -30 s, 0 s, 3600 s, 3601 s and half a second
TrimInputs == {NoTrim, BadTrim, <<Sec(10), Sec(40)>>, <<Sec(40), Sec(10)>>,
               <<Sec(10), Sec(10)>>, <<0, Sec(3600)>>, <<0, Sec(3601)>>,
               <<Sec(10), Sec(10) + 1>>}
\* flags.url after strip("<>"):
\*   "public"     https://example.com/v        "youtube"   a youtube.com URL
\*   "sudo"       https://example.com/v#_sudo  "empty"     nothing
\*   "publicip"   http://93.184.216.34/v       "private"   http://10.0.0.5/v
\*   "loopback"   http://127.0.0.1/v           "linklocal" http://169.254.169.254/v
\*   "localhost"  http://localhost/v           "short"     http://127.1/v
\*   "noscheme"   127.0.0.1/v
UrlInputs == {"public", "youtube", "sudo", "empty", "publicip", "private",
              "loopback", "linklocal", "localhost", "short", "noscheme"}

-----------------------------------------------------------------------------
(* The per-user cooldown bucket (commands.cooldown) *)

Max(a, b) == IF a >= b THEN a ELSE b

FreshBucket == [tokens |-> Rate, window |-> 0]

\* mutant: the window is compared without the period
GetTokensNoPer(b, current) ==
    IF current > b.window THEN Rate ELSE Max(b.tokens, 0)

\* Cooldown.get_tokens
GetTokens(b, current) ==
    IF current > b.window + Per THEN Rate ELSE Max(b.tokens, 0)

\* Cooldown.update_rate_limit: the bucket after the call
UpdateRateLimit(b, current) ==
    LET t == GetTokens(b, current)
    IN  [tokens |-> t - 1, window |-> IF t = Rate THEN current ELSE b.window]

\* Cooldown.update_rate_limit returns a retry_after: CommandOnCooldown
RateLimited(b, current) == UpdateRateLimit(b, current).tokens < 0

\* ctx.command.reset_cooldown(ctx)
ResetCooldown(b) == [b EXCEPT !.tokens = Rate]

-----------------------------------------------------------------------------
(* State *)

IdleJob == [pc |-> "idle", author |-> "user",
            state |-> "downloading", finished |-> FALSE, path |-> NoFile,
            err |-> "none", size |-> NoSize, runs |-> 0, out |-> "none"]

IdleMon == [pc |-> "none", msg |-> "none", listed |-> {},
            content |-> "none", shown |-> "none"]

NoVerdict == "none"

\* the dlaudio command: its own max_concurrency(1) semaphore and the
\* position of its callback
IdleAudio == [pc |-> "idle", sem |-> Number, file |-> NoFile]

\* no request is being evaluated
NoInfo == [stage |-> "none"]

\* music.py line 70: deque([], 10), and line 203: len(self.queue) == 10
QueueCap == 10

\* the songs are numbered in the order resolve_query returns them
MaxSongs == 12
NoSong == 0

\* the coroutines of the music cog that run at the same time: play commands
\* and the real_play calls of the after callbacks
Procs == {1, 2}
IdleProc == [pc |-> "idle", song |-> NoSong]

\* Music.__init__, lines 64-70: state = MusicState(None, False) and the
\* empty queue; `playing` is the source the voice client plays
IdleMusic == [queue |-> <<>>, song |-> NoSong, connected |-> FALSE,
              playing |-> NoSong, next |-> 1,
              proc |-> [p \in Procs |-> IdleProc]]

Init ==
    /\ sem = Number
    /\ bucket = [u \in Users |-> FreshBucket]
    /\ now = 0
    /\ verdict = NoVerdict
    /\ job = [c \in Ctx |-> IdleJob]
    /\ fs = {}
    /\ wrote = [c \in Ctx |-> {}]
    /\ mon = [c \in Ctx |-> IdleMon]
    /\ audio = IdleAudio
    /\ info = NoInfo
    /\ music = IdleMusic

\* The event loop runs one task at a time: between iterdir() and stat() the
\* monitor does not yield, so no other coroutine runs; only threads do.
LoopFree == \A c \in Ctx : mon[c].pc # "listed"

-----------------------------------------------------------------------------
(* Admission: Command.prepare of discord.py, as configured by the decorators *)

\* mutant: the command has no max_concurrency guard
CanAcquireAlways(s) == TRUE

\* _Semaphore.acquire(wait=False) succeeds
CanAcquire(s) == s > 0

\* MaxConcurrencyReached: the request is refused, nothing is queued
InvokeBusy(u) ==
    /\ ~CanAcquire(sem)
    /\ verdict' = "Busy"
    /\ UNCHANGED <<sem, bucket, job>>

\* the semaphore is taken, _prepare_cooldowns raises CommandOnCooldown and
\* prepare releases the semaphore again
InvokeCooldown(u) ==
    /\ CanAcquire(sem)
    /\ RateLimited(bucket[u], now)
    /\ verdict' = "Cooldown"
    /\ bucket' = [bucket EXCEPT ![u] = UpdateRateLimit(@, now)]
    /\ UNCHANGED <<sem, job>>

\* a new invocation takes the first free context
FreeCtx == {c \in Ctx : job[c].pc = "idle" /\ mon[c].pc = "none"}
FirstFree(c) == c \in FreeCtx /\ \A d \in FreeCtx : c <= d

\* the request is admitted and the callback starts in context c
InvokeAdmit(c, u) ==
    /\ FirstFree(c)
    /\ CanAcquire(sem)
    /\ ~RateLimited(bucket[u], now)
    /\ verdict' = "Admitted"
    /\ sem' = sem - 1
    /\ bucket' = [bucket EXCEPT ![u] = UpdateRateLimit(@, now)]
    /\ job' = [job EXCEPT ![c] = [IdleJob EXCEPT !.pc = "validate", !.author = u]]

\* a `download` message of user u, created at time `now`
Invoke(C, u) ==
    /\ LoopFree
    /\ \/ InvokeBusy(u)
       \/ InvokeCooldown(u)
       \/ \E c \in C : InvokeAdmit(c, u)
    /\ UNCHANGED <<now, fs, wrote, mon, audio, info, music>>

-----------------------------------------------------------------------------
(* The body of Media.download *)

\* an exception leaves the try block
Raise(j, kind, text) == [j EXCEPT !.pc = "cleanup", !.err = kind, !.out = text]

\* urlparse(url).hostname: None without "//" after a scheme
Hostname(url) ==
    CASE url \in {"empty", "noscheme"} -> "None"
      [] url = "publicip" -> "93.184.216.34"
      [] url = "private" -> "10.0.0.5"
      [] url = "loopback" -> "127.0.0.1"
      [] url = "linklocal" -> "169.254.169.254"
      [] url = "localhost" -> "localhost"
      [] url = "short" -> "127.1"
      [] url = "youtube" -> "www.youtube.com"
      [] OTHER -> "example.com"

\* aiohttp.helpers.is_ip_address: four decimal octets (or an IPv6 literal)
IsIpAddress(h) ==
    h \in {"93.184.216.34", "10.0.0.5", "127.0.0.1", "169.254.169.254"}

\* ipaddress.ip_address(h).is_private
IsPrivate(h) == h \in {"10.0.0.5", "127.0.0.1", "169.254.169.254"}

\* mutant: only the name localhost is refused
CheckForSsrfNameOnly(url) == Hostname(url) = "localhost"

\* check_for_ssrf raises SSRFError
CheckForSsrf(url) ==
    LET hostname == Hostname(url)
    IN  \/ hostname # "None" /\ hostname = "localhost"
        \/ IsIpAddress(hostname) /\ IsPrivate(hostname)

\* lines 459-462: "youtube.com" in url or "youtu.be" in url, the only URLs
\* for which ytdl_opts gets a "format" key before the trim is looked at
IsYoutube(url) == url = "youtube"

\* lines 433-488: the error the validation raises, or "ok". Line 477 reads
\* ytdl_opts['format'], which DEFAULT_OPTS does not define.
ValidationError(url, trim, fmt) ==
    IF CheckForSsrf(url) THEN "Error: Invalid URL."
    ELSE IF url = "empty" THEN "No URL provided."
    ELSE IF trim # NoTrim /\ Len(trim) # 2 THEN "Invalid trim selection."
    ELSE IF trim # NoTrim /\ ~IsYoutube(url) THEN "KeyError: 'format'"
    ELSE IF trim # NoTrim /\ trim[2] - trim[1] > Sec(3600)
         THEN "The trim selection is too long (> 1 hour)."
    ELSE IF trim # NoTrim /\ trim[2] - trim[1] < Sec(1)
         THEN "The trim selection cannot be negative or zero."
    ELSE IF fmt /\ trim # NoTrim
         THEN "Format choice is not supported with a trim selection."
    ELSE "ok"

\* the class of the exception the validation raises
ErrorClass(e) ==
    CASE e = "Error: Invalid URL." -> "SSRFError"
      [] e = "KeyError: 'format'" -> "KeyError"
      [] OTHER -> "ArtemisError"

\* SSRFError is a subclass of ArtemisError
ArtemisErrors == {"ArtemisError", "SSRFError"}

\* lines 432-493: validation, then create_task(monitor_download()) and the
\* call of run_ytdlp, which runs extract_info in a thread
Validate(c, url, trim, fmt) ==
    /\ LoopFree
    /\ job[c].pc = "validate"
    /\ LET e == ValidationError(url, trim, fmt)
       IN  IF e # "ok"
           THEN /\ job' = [job EXCEPT ![c] = Raise(@, ErrorClass(e), e)]
                /\ UNCHANGED mon
           ELSE /\ job' = [job EXCEPT ![c].pc = "ytdlp", ![c].runs = @ + 1]
                /\ mon' = [mon EXCEPT ![c].pc = "loop"]
    /\ UNCHANGED <<sem, bucket, now, verdict, fs, wrote, audio, info, music>>

\* the yt-dlp thread creates or extends a file of the scratch directory
YtWrite(c, f) ==
    /\ job[c].pc = "ytdlp"
    /\ fs' = fs \cup {f}
    /\ wrote' = [wrote EXCEPT ![c] = @ \cup {f}]
    /\ UNCHANGED <<sem, bucket, now, verdict, job, mon, audio, info, music>>

\* the yt-dlp thread deletes the intermediate file after merging the streams
YtUnlink(c) ==
    /\ job[c].pc = "ytdlp"
    /\ "tmp" \in fs \cap wrote[c]
    /\ fs' = fs \ {"tmp"}
    /\ wrote' = [wrote EXCEPT ![c] = @ \ {"tmp"}]
    /\ UNCHANGED <<sem, bucket, now, verdict, job, mon, audio, info, music>>

\* mutant: the boundary sizes fall in the upper tier
TierStrict(size) ==
    IF size < MAX_DISCORD_SIZE THEN "Inline"
    ELSE IF size < MAX_LITTERBOX_SIZE THEN "RemoteTemporary"
    ELSE "Rejected"

\* lines 511-523: the delivery tier of an artifact of `size` bytes
Tier(size) ==
    IF size <= MAX_DISCORD_SIZE THEN "Inline"
    ELSE IF size <= MAX_LITTERBOX_SIZE THEN "RemoteTemporary"
    ELSE "Rejected"

\* mutant: the file is not looked up before its size is read
ProducedUnchecked(j, size) ==
    LET k == [j EXCEPT !.state = "uploading", !.path = "out"]
    IN  CASE Tier(size) = "Inline" -> [k EXCEPT !.size = size, !.pc = "inline"]
          [] Tier(size) = "RemoteTemporary" -> [k EXCEPT !.size = size, !.pc = "upload"]
          [] OTHER -> Raise([k EXCEPT !.size = size], "ArtemisError",
                            "The file is still too big to upload (> 1 GB).")

\* lines 494-523, up to the first await: run_ytdlp returned the descriptor;
\* the file id.ext is looked up, its size read and the delivery branch taken
Produced(j, size) ==
    LET k == [j EXCEPT !.state = "uploading", !.path = "out"]
    IN  IF "out" \notin fs
        THEN Raise(k, "ArtemisError", "Internal Error: File does not exist.")
        ELSE CASE Tier(size) = "Inline" -> [k EXCEPT !.size = size, !.pc = "inline"]
               [] Tier(size) = "RemoteTemporary" ->
                      [k EXCEPT !.size = size, !.pc = "upload"]
               [] OTHER -> Raise([k EXCEPT !.size = size], "ArtemisError",
                                 "The file is still too big to upload (> 1 GB).")

\* the file name built from the descriptor of a playlist: its id is the
\* playlist's and it has no ext, while yt-dlp wrote the first entry's file
PlaylistPath == "plist"

\* lines 494-507 when extract_info returned a playlist
PlaylistProduced(j) ==
    LET k == [j EXCEPT !.state = "uploading", !.path = PlaylistPath]
    IN  IF PlaylistPath \notin fs
        THEN Raise(k, "ArtemisError", "Internal Error: File does not exist.")
        ELSE [k EXCEPT !.pc = "inline"]

\* what match_filter raises
FilterReasons ==
    {"Streams are not supported.", "Failed to extract duration and filesize.",
     "The video is too big (> 1 GB).", "The video is too long (> 1 hour)."}

\* the ways run_ytdlp ends
YtResults == {"ok", "err", "exc", "playlist"} \cup FilterReasons

\* mutant: a failed extraction is tried again
AfterYtRetry(c, r, size) ==
    /\ LoopFree
    /\ job[c].pc = "ytdlp"
    /\ job' = [job EXCEPT ![c] =
          CASE r = "err" -> [@ EXCEPT !.runs = @ + 1]
            [] r = "exc" -> Raise(@, "Exception", "unknown error")
            [] OTHER -> Produced(@, size)]
    /\ UNCHANGED <<sem, bucket, now, verdict, fs, wrote, mon, audio, info, music>>

\* mutant: match_filter is called when the download is over
FilterCalled(c) == TRUE

\* yt-dlp calls match_filter before it downloads: the filter can raise
\* only while the thread has written nothing
FilterCalledFirst(c) == wrote[c] = {}

\* line 493: run_ytdlp is over. extract_info returned the descriptor of a
\* video ("ok") or of a playlist ("playlist"), raised YoutubeDLError
\* ("err"), raised the ArtemisError of match_filter (one of FilterReasons),
\* or raised anything else ("exc"); `size` is what stat() gives for the
\* output file
AfterYt(c, r, size) ==
    /\ LoopFree
    /\ job[c].pc = "ytdlp"
    /\ r \in FilterReasons => FilterCalledFirst(c)
    /\ job' = [job EXCEPT ![c] =
          CASE r = "err" -> Raise(@, "ArtemisError", "extraction failed")
            [] r = "exc" -> Raise(@, "Exception", "unknown error")
            [] r \in FilterReasons -> Raise(@, "ArtemisError", r)
            [] r = "playlist" -> PlaylistProduced(@)
            [] OTHER -> Produced(@, size)]
    /\ UNCHANGED <<sem, bucket, now, verdict, fs, wrote, mon, audio, info, music>>

\* line 512: ctx.reply(file=...) returns or raises discord.HTTPException
InlineDone(c, ok) ==
    /\ LoopFree
    /\ job[c].pc = "inline"
    /\ job' = [job EXCEPT ![c] =
          IF ok THEN [@ EXCEPT !.pc = "cleanup", !.out = "Inline", !.size = NoSize]
          ELSE Raise([@ EXCEPT !.size = NoSize], "Exception", "unknown error")]
    /\ UNCHANGED <<sem, bucket, now, verdict, fs, wrote, mon, audio, info, music>>

\* line 515: litterbox.upload returns the link, raises CatboxError (caught
\* at line 518), or raises another exception (aiohttp.ClientError)
UploadDone(c, r) ==
    /\ LoopFree
    /\ job[c].pc = "upload"
    /\ job' = [job EXCEPT ![c] =
          CASE r = "ok" ->
                   [@ EXCEPT !.pc = "reply", !.out = "RemoteTemporary", !.size = NoSize]
            [] r = "CatboxError" ->
                   [@ EXCEPT !.pc = "reply", !.out = "CatboxError", !.size = NoSize]
            [] OTHER -> Raise([@ EXCEPT !.size = NoSize], "Exception", "unknown error")]
    /\ UNCHANGED <<sem, bucket, now, verdict, fs, wrote, mon, audio, info, music>>

\* lines 517 and 519: ctx.reply of the link or of the CatboxError
ReplyDone(c, ok) ==
    /\ LoopFree
    /\ job[c].pc = "reply"
    /\ job' = [job EXCEPT ![c] =
          IF ok THEN [@ EXCEPT !.pc = "cleanup"]
          ELSE Raise(@, "Exception", "unknown error")]
    /\ UNCHANGED <<sem, bucket, now, verdict, fs, wrote, mon, audio, info, music>>

\* lines 524-530: the except clauses; only ArtemisError resets the cooldown
Handler(b, j) ==
    IF j.err \in ArtemisErrors
    THEN [b EXCEPT ![j.author] = ResetCooldown(@)]
    ELSE b

\* mutant: the finally clause unlinks without asking whether the file exists
ShouldUnlinkUnchecked(files, j) == j.path # NoFile

\* line 533: if path and path.exists()
ShouldUnlink(files, j) == j.path # NoFile /\ j.path \in files

\* line 534: path.unlink() of a file that is not there raises
\* FileNotFoundError
UnlinkRaises(files, j) == ShouldUnlink(files, j) /\ j.path \notin files

\* lines 531-534: the finally clause: the files left after it
Unlinked(files, j) ==
    IF ShouldUnlink(files, j) THEN files \ {j.path} ELSE files

\* lines 524-534: the try block is left, by an exception or normally
Cleanup(c) ==
    /\ LoopFree
    /\ job[c].pc = "cleanup"
    /\ bucket' = Handler(bucket, job[c])
    /\ job' = [job EXCEPT ![c] =
          LET k == [@ EXCEPT !.pc = "release", !.finished = TRUE, !.size = NoSize]
          IN  IF UnlinkRaises(fs, @)
              THEN [k EXCEPT !.err = "FileNotFoundError", !.out = "unknown error"]
              ELSE k]
    /\ fs' = Unlinked(fs, job[c])
    /\ wrote' = [wrote EXCEPT ![c] = Unlinked(@, job[c])]
    /\ UNCHANGED <<sem, now, verdict, mon, audio, info, music>>

\* mutant: the semaphore is released only when the callback returns normally
ReleaseUnlessError(c) ==
    /\ LoopFree
    /\ job[c].pc = "release"
    /\ sem' = IF job[c].err = "none" THEN sem + 1 ELSE sem
    /\ job' = [job EXCEPT ![c] = [IdleJob EXCEPT !.pc = "done", !.finished = TRUE]]
    /\ wrote' = [wrote EXCEPT ![c] = {}]
    /\ UNCHANGED <<bucket, now, verdict, fs, mon, audio, info, music>>

\* the callback is over: hooked_wrapped_callback releases the semaphore and
\* an error goes to Artemis.on_command_error, which replies with its text
Release(c) ==
    /\ LoopFree
    /\ job[c].pc = "release"
    /\ sem' = sem + 1
    /\ job' = [job EXCEPT ![c] = [IdleJob EXCEPT !.pc = "done", !.finished = TRUE]]
    /\ wrote' = [wrote EXCEPT ![c] = {}]
    /\ UNCHANGED <<bucket, now, verdict, fs, mon, audio, info, music>>

\* the context of a finished invocation is dropped
Recycle(c) ==
    /\ LoopFree
    /\ job[c].pc = "done"
    /\ mon[c].pc \in {"none", "done", "dead"}
    /\ job' = [job EXCEPT ![c] = IdleJob]
    /\ mon' = [mon EXCEPT ![c] = IdleMon]
    /\ UNCHANGED <<sem, bucket, now, verdict, fs, wrote, audio, info, music>>

-----------------------------------------------------------------------------
(* monitor_download, lines 405-430 *)

\* mutant: the uploading indicator is chosen from the delivery step
StatusOfDelivery(j) == IF j.pc = "upload" THEN "uploading" ELSE "downloading"

\* lines 410 and 421: the status the content is chosen from
StatusOf(j) == j.state

\* lines 408-422, after create_task or after asyncio.sleep(1): the loop test
\* and the choice of the content
MonLoop(c) ==
    /\ LoopFree
    /\ mon[c].pc = "loop"
    /\ mon' = [mon EXCEPT ![c] =
          IF job[c].finished
          THEN [@ EXCEPT !.pc = IF mon[c].msg = "posted" THEN "delete" ELSE "done"]
          ELSE IF StatusOf(job[c]) = "downloading"
          THEN [@ EXCEPT !.pc = "listed", !.listed = fs]
          ELSE [@ EXCEPT !.pc = "send", !.content = StatusOf(job[c])]]
    /\ UNCHANGED <<sem, bucket, now, verdict, job, fs, wrote, audio, info, music>>

\* lines 414-416: stat() of the files listed; a file that is gone raises
\* FileNotFoundError, which ends the task
MonStat(c) ==
    /\ mon[c].pc = "listed"
    /\ mon' = [mon EXCEPT ![c] =
          IF @.listed \subseteq fs
          THEN [@ EXCEPT !.pc = "send", !.listed = {}, !.content = "downloading"]
          ELSE [@ EXCEPT !.pc = "dead", !.listed = {}]]
    /\ UNCHANGED <<sem, bucket, now, verdict, job, fs, wrote, audio, info, music>>

\* mutant: the monitor assigns the `state` it declares nonlocal
MonSendWritesState(c, ok) ==
    /\ LoopFree
    /\ mon[c].pc = "send"
    /\ mon' = [mon EXCEPT ![c] =
          IF ok THEN [@ EXCEPT !.pc = "loop", !.msg = "posted",
                               !.shown = mon[c].content, !.content = "none"]
          ELSE [@ EXCEPT !.pc = "dead", !.content = "none"]]
    /\ job' = [job EXCEPT ![c].state = "uploading"]
    /\ UNCHANGED <<sem, bucket, now, verdict, fs, wrote, audio, info, music>>

\* lines 424-428: ctx.reply or msg.edit returns and the task sleeps, or it
\* raises HTTPException, which ends the task
MonSend(c, ok) ==
    /\ LoopFree
    /\ mon[c].pc = "send"
    /\ mon' = [mon EXCEPT ![c] =
          IF ok THEN [@ EXCEPT !.pc = "loop", !.msg = "posted",
                               !.shown = mon[c].content, !.content = "none"]
          ELSE [@ EXCEPT !.pc = "dead", !.content = "none"]]
    /\ UNCHANGED <<sem, bucket, now, verdict, job, fs, wrote, audio, info, music>>

\* lines 429-430: msg.delete()
MonDelete(c) ==
    /\ LoopFree
    /\ mon[c].pc = "delete"
    /\ mon' = [mon EXCEPT ![c].pc = "done", ![c].msg = "deleted",
                          ![c].shown = "none"]
    /\ UNCHANGED <<sem, bucket, now, verdict, job, fs, wrote, audio, info, music>>

-----------------------------------------------------------------------------

\* time passes
Tick ==
    /\ now + TickStep <= MaxTime
    /\ now' = now + TickStep
    /\ UNCHANGED <<sem, bucket, verdict, job, fs, wrote, mon, audio, info, music>>

\* the steps of the job engine in the contexts C
StepOf(C, U) ==
    \/ \E u \in U : Invoke(C, u)
    \/ \E c \in C, url \in UrlInputs, trim \in TrimInputs, fmt \in BOOLEAN :
          Validate(c, url, trim, fmt)
    \/ \E c \in C, f \in Files : YtWrite(c, f)
    \/ \E c \in C : YtUnlink(c)
    \/ \E c \in C, r \in YtResults, size \in Sizes : AfterYt(c, r, size)
    \/ \E c \in C, ok \in BOOLEAN : InlineDone(c, ok)
    \/ \E c \in C, r \in {"ok", "CatboxError", "exc"} : UploadDone(c, r)
    \/ \E c \in C, ok \in BOOLEAN : ReplyDone(c, ok)
    \/ \E c \in C : Cleanup(c)
    \/ \E c \in C : Release(c)
    \/ \E c \in C : Recycle(c)
    \/ \E c \in C : MonLoop(c)
    \/ \E c \in C : MonStat(c)
    \/ \E c \in C, ok \in BOOLEAN : MonSend(c, ok)
    \/ \E c \in C : MonDelete(c)

\* a step of the contexts C with every requester
Step(C) == StepOf(C, Users)

\* The job engine with every context and one requester, all messages
\* created at the same time: the monitor of a finished job can overlap the
\* next job, which the requester can start when the cooldown was reset.
Next == StepOf(Ctx, {"user"})

Spec == Init /\ [][Next]_vars

\* The job engine with a clock: one context alive at a time.
NextClock == Step({1}) \/ Tick

SpecClock == Init /\ [][NextClock]_vars

-----------------------------------------------------------------------------
(* The dlaudio command (lines 148-183): it writes data/temp/<id>.<ext> too *)

\* the file yt-dlp writes for dlaudio
AudioFile == "aud"

\* the output files of dlaudio: lines 160 and 398 give both commands the
\* template TEMP_DIR/%(id)s.%(ext)s, so for the video and the extension of
\* a download job the file of dlaudio is the file of that job
AudioFiles == {AudioFile, "out"}

\* @commands.max_concurrency(1) of dlaudio: a second dlaudio is refused
AudioBusy ==
    /\ LoopFree
    /\ ~CanAcquire(audio.sem)
    /\ verdict' = "Busy"
    /\ UNCHANGED <<sem, bucket, now, job, fs, wrote, mon, audio, info, music>>

\* dlaudio is admitted: lines 155-170, then run_ytdlp starts its thread
AudioInvoke(url, f) ==
    /\ LoopFree
    /\ CanAcquire(audio.sem)
    /\ audio.pc = "idle"
    /\ verdict' = "Admitted"
    /\ audio' = [pc |-> IF CheckForSsrf(url) THEN "release" ELSE "ytdlp",
                 sem |-> audio.sem - 1,
                 file |-> IF CheckForSsrf(url) THEN NoFile ELSE f]
    /\ UNCHANGED <<sem, bucket, now, job, fs, wrote, mon, info, music>>

\* the yt-dlp thread of dlaudio writes its output file
AudioWrite ==
    /\ audio.pc = "ytdlp"
    /\ fs' = fs \cup {audio.file}
    /\ UNCHANGED <<sem, bucket, now, verdict, job, wrote, mon, audio, info, music>>

\* line 171: run_ytdlp is over; lines 180-181: a missing file is reported
AudioAfterYt(ok) ==
    /\ LoopFree
    /\ audio.pc = "ytdlp"
    /\ audio' = [audio EXCEPT !.pc =
                    IF ok /\ audio.file \in fs THEN "reply" ELSE "release"]
    /\ UNCHANGED <<sem, bucket, now, verdict, job, fs, wrote, mon, info, music>>

\* lines 182-183: the file is sent and unlinked; nothing is unlinked when
\* the reply raises
AudioReply(ok) ==
    /\ LoopFree
    /\ audio.pc = "reply"
    /\ audio' = [audio EXCEPT !.pc = "release"]
    /\ fs' = IF ok THEN fs \ {audio.file} ELSE fs
    /\ UNCHANGED <<sem, bucket, now, verdict, job, wrote, mon, info, music>>

\* the callback of dlaudio is over: its semaphore is released
AudioRelease ==
    /\ LoopFree
    /\ audio.pc = "release"
    /\ audio' = [pc |-> "idle", sem |-> audio.sem + 1, file |-> NoFile]
    /\ UNCHANGED <<sem, bucket, now, verdict, job, fs, wrote, mon, info, music>>

\* download and dlaudio served by the same bot
NextAudio ==
    \/ StepOf({1}, {"user"})
    \/ AudioBusy
    \/ \E url \in {"public", "private"}, f \in AudioFiles : AudioInvoke(url, f)
    \/ AudioWrite
    \/ \E ok \in BOOLEAN : AudioAfterYt(ok)
    \/ \E ok \in BOOLEAN : AudioReply(ok)
    \/ AudioRelease

SpecAudio == Init /\ [][NextAudio]_vars

\* download alone, one invocation at a time
SpecOne == Init /\ [][Step({1})]_vars

-----------------------------------------------------------------------------
(* The request options and match_filter (lines 438-488) as functions of    *)
(* the request and of the descriptor yt-dlp hands to the filter            *)

\* an optional value of info_dict: None, or <<v>>
None == <<>>
\* Python truth of an optional number and of an optional flag
TruthyNum(x) == x # None /\ x[1] # 0
TruthyFlag(x) == x # None /\ x[1]
\* a or b
Or(a, b) == IF TruthyNum(a) THEN a ELSE b

\* "#_sudo" in url
HasSudo(url) == url = "sudo"

\* mutant: the marker alone switches the checks off
BypassAnyone(url, owner) == HasSudo(url)

\* line 440: "#_sudo" in url and ctx.author.id == self.bot.owner_id
Bypass(url, owner) == HasSudo(url) /\ owner

\* mutant: a descriptor without duration and size passes
LimitsReasonLenient(d) ==
    LET duration == d.duration
        filesize == Or(d.filesize, d.filesize_approx)
    IN  IF TruthyNum(filesize) /\ (filesize[1] < 1 \/ filesize[1] > MAX_LITTERBOX_SIZE)
        THEN "The video is too big (> 1 GB)."
        ELSE IF TruthyNum(duration) /\ (duration[1] < 0 \/ duration[1] > 3600)
        THEN "The video is too long (> 1 hour)."
        ELSE "ok"

\* lines 449-456: the checks of an untrimmed request
LimitsReason(d) ==
    LET duration == d.duration
        filesize == Or(d.filesize, d.filesize_approx)
    IN  IF ~TruthyNum(duration) /\ ~TruthyNum(filesize)
        THEN "Failed to extract duration and filesize."
        ELSE IF TruthyNum(filesize) /\ (filesize[1] < 1 \/ filesize[1] > MAX_LITTERBOX_SIZE)
        THEN "The video is too big (> 1 GB)."
        ELSE IF TruthyNum(duration) /\ (duration[1] < 0 \/ duration[1] > 3600)
        THEN "The video is too long (> 1 hour)."
        ELSE "ok"

\* mutant: the limits are applied to a trimmed request too
MatchFilterChecksTrimmed(url, owner, trim, d) ==
    IF Bypass(url, owner) THEN "ok"
    ELSE IF TruthyFlag(d.is_live) THEN "Streams are not supported."
    ELSE LimitsReason(d)

\* mutant: the trim is looked at before the live flag
MatchFilterTrimFirst(url, owner, trim, d) ==
    IF Bypass(url, owner) THEN "ok"
    ELSE IF trim # NoTrim THEN "ok"
    ELSE IF TruthyFlag(d.is_live) THEN "Streams are not supported."
    ELSE LimitsReason(d)

\* lines 438-456: what match_filter raises, or "ok" when it returns None
MatchFilter(url, owner, trim, d) ==
    IF Bypass(url, owner) THEN "ok"
    ELSE IF TruthyFlag(d.is_live) THEN "Streams are not supported."
    ELSE IF trim # NoTrim THEN "ok"
    ELSE LimitsReason(d)

\* lines 459-488: ytdl_opts["format"] once the validation has passed
\* ("format_sort": the key is not set, format_sort is)
YtdlFormat(url, trim, fmt) ==
    IF fmt THEN "override"
    ELSE IF trim # NoTrim THEN "trimmed"
    ELSE IF IsYoutube(url) THEN "youtube"
    ELSE "format_sort"

\* the requests and the descriptors the functions are applied to
FilterUrls == {"public", "youtube", "sudo", "private"}
FilterTrims == {NoTrim, <<Sec(10), Sec(40)>>, <<Sec(40), Sec(10)>>, <<0, Sec(30)>>}
Durations == {None, <<0>>, <<120>>, <<3600>>, <<3601>>, <<7200>>}
FileSizes == {None, <<0>>, <<0 - 1>>, <<5 * 1024 * 1024>>,
              <<MAX_LITTERBOX_SIZE>>, <<MAX_LITTERBOX_SIZE + 1>>}
ApproxSizes == {None, <<5 * 1024 * 1024>>, <<MAX_LITTERBOX_SIZE + 1>>}
Descriptors ==
    [is_live : {None, <<FALSE>>, <<TRUE>>}, duration : Durations,
     filesize : FileSizes, filesize_approx : ApproxSizes]

InitFilter ==
    /\ sem = Number
    /\ bucket = [u \in Users |-> FreshBucket]
    /\ now = 0
    /\ verdict = NoVerdict
    /\ job = [c \in Ctx |-> IdleJob]
    /\ fs = {}
    /\ wrote = [c \in Ctx |-> {}]
    /\ mon = [c \in Ctx |-> IdleMon]
    /\ audio = IdleAudio
    /\ info \in [stage : {"request"}, url : FilterUrls, trim : FilterTrims,
                  fmt : BOOLEAN, owner : BOOLEAN, d : Descriptors,
                  format : {"unset"}, reason : {"none"}, raised : {"none"}]
    /\ music = IdleMusic

\* lines 432-488: the request is validated and the options are built
PlanRequest ==
    /\ info.stage = "request"
    /\ LET e == ValidationError(info.url, info.trim, info.fmt)
       IN  info' = IF e # "ok"
                   THEN [info EXCEPT !.stage = "invalid", !.reason = e]
                   ELSE [info EXCEPT !.stage = "resolve",
                            !.format = YtdlFormat(info.url, info.trim, info.fmt)]
    /\ UNCHANGED <<sem, bucket, now, verdict, job, fs, wrote, mon, audio, music>>

\* yt-dlp calls match_filter with the descriptor
ApplyFilter ==
    /\ info.stage = "resolve"
    /\ LET r == MatchFilter(info.url, info.owner, info.trim, info.d)
       IN  info' = [info EXCEPT !.stage = IF r = "ok" THEN "accepted" ELSE "rejected",
                                !.reason = r]
    /\ UNCHANGED <<sem, bucket, now, verdict, job, fs, wrote, mon, audio, music>>

\* lines 402 and 465-468: ss and to as the handler sees them (flags.ss is
\* not given)
SsTo(trim) ==
    IF trim = NoTrim THEN [ss |-> None, to |-> None]
    ELSE [ss |-> <<trim[1]>>, to |-> <<trim[2]>>]

\* the errors run_ytdlp raises once the request is with yt-dlp
ExtractionErrors == {"requested format not available", "Unsupported URL"}

\* lines 524-528: the ArtemisError the handler lets through
Reported(e, trim) ==
    IF /\ e = "requested format not available"
       /\ TruthyNum(SsTo(trim).ss) /\ TruthyNum(SsTo(trim).to)
    THEN "Segmented streams are not supported with a trim selection."
    ELSE e

\* run_ytdlp raises ArtemisError(e) and the handler of lines 524-528 runs
ExtractionFails(e) ==
    /\ info.stage \in {"resolve", "accepted"}
    /\ info' = [info EXCEPT !.stage = "failed", !.raised = e,
                            !.reason = Reported(e, info.trim)]
    /\ UNCHANGED <<sem, bucket, now, verdict, job, fs, wrote, mon, audio, music>>

NextFilter ==
    \/ PlanRequest
    \/ ApplyFilter
    \/ \E e \in ExtractionErrors : ExtractionFails(e)

SpecFilter == InitFilter /\ [][NextFilter]_vars

-----------------------------------------------------------------------------
(* Fairness: the asyncio event loop runs every ready task, the awaited     *)
(* calls (the yt-dlp thread, the HTTP requests) return, and the monitor    *)
(* does not yield between iterdir() and stat().                            *)

JobStep(c) ==
    \/ \E url \in UrlInputs, trim \in TrimInputs, fmt \in BOOLEAN :
          Validate(c, url, trim, fmt)
    \/ \E r \in YtResults, size \in Sizes : AfterYt(c, r, size)
    \/ \E ok \in BOOLEAN : InlineDone(c, ok)
    \/ \E r \in {"ok", "CatboxError", "exc"} : UploadDone(c, r)
    \/ \E ok \in BOOLEAN : ReplyDone(c, ok)
    \/ Cleanup(c)
    \/ Release(c)

SpecLive ==
    /\ Init
    /\ [][Step({1})]_vars
    /\ SF_vars(JobStep(1))
    /\ WF_vars(MonStat(1))

-----------------------------------------------------------------------------
(* The music cog, src/artemis/cogs/music.py *)

\* deque.append of a deque with maxlen: a full deque discards its head
DequeAppend(q, s) == IF Len(q) = QueueCap THEN Append(Tail(q), s) ELSE Append(q, s)

\* lines 184-195: join connects the voice client
Join ==
    /\ ~music.connected
    /\ music' = [music EXCEPT !.connected = TRUE]
    /\ UNCHANGED <<sem, bucket, now, verdict, job, fs, wrote, mon, audio, info>>

\* lines 197-200: a play command passes in_voice_channel and awaits
\* ctx.typing()
PlayInvoke(p) ==
    /\ music.connected
    /\ music.proc[p].pc = "idle"
    /\ music.next <= MaxSongs
    /\ music' = [music EXCEPT !.proc[p].pc = "typing"]
    /\ UNCHANGED <<sem, bucket, now, verdict, job, fs, wrote, mon, audio, info>>

\* lines 202-204 and 211: is_playing() and the length of the queue are read
\* and resolve_query is awaited; a full queue is refused with "The queue is
\* full!"; ctx.voice_client is None after a disconnect
PlayCheck(p) ==
    /\ music.proc[p].pc = "typing"
    /\ music' = [music EXCEPT !.proc[p].pc =
          IF ~music.connected THEN "idle"
          ELSE IF music.playing = NoSong THEN "resolve_play"
          ELSE IF Len(music.queue) = QueueCap THEN "idle"
          ELSE "resolve_queue"]
    /\ UNCHANGED <<sem, bucket, now, verdict, job, fs, wrote, mon, audio, info>>

\* lines 205-209: resolve_query returned while a song was playing at the
\* check: the song is appended, or nothing was found
PlayQueued(p, ok) ==
    /\ music.proc[p].pc = "resolve_queue"
    /\ music' =
          IF ok
          THEN [music EXCEPT !.proc[p].pc = "idle",
                             !.queue = DequeAppend(@, music.next),
                             !.next = @ + 1]
          ELSE [music EXCEPT !.proc[p].pc = "idle"]
    /\ UNCHANGED <<sem, bucket, now, verdict, job, fs, wrote, mon, audio, info>>

\* lines 211-213 and 174-180: resolve_query returned while nothing was
\* playing at the check: the song is appended and real_play pops the head
\* of the queue into state.song, then awaits from_probe; or resolve_query
\* raised
PlayNow(p, ok) ==
    /\ music.proc[p].pc = "resolve_play"
    /\ music' =
          IF ok
          THEN LET q == DequeAppend(music.queue, music.next)
               IN  [music EXCEPT !.proc[p] = [pc |-> "probe", song |-> Head(q)],
                                 !.queue = Tail(q),
                                 !.song = Head(q),
                                     !.next = @ + 1]
          ELSE [music EXCEPT !.proc[p].pc = "idle"]
    /\ UNCHANGED <<sem, bucket, now, verdict, job, fs, wrote, mon, audio, info>>

\* lines 180-182: from_probe returned and voice_client.play is called: it
\* raises ClientException when the client is already playing, and the
\* voice client is None after a disconnect
RealPlayStart(p) ==
    /\ music.proc[p].pc = "probe"
    /\ music' =
          IF ~music.connected \/ music.playing # NoSong
          THEN [music EXCEPT !.proc[p] = IdleProc]
          ELSE [music EXCEPT !.proc[p] = IdleProc,
                             !.playing = music.proc[p].song]
    /\ UNCHANGED <<sem, bucket, now, verdict, job, fs, wrote, mon, audio, info>>

\* lines 169-172: the source is over, or skip stopped it (line 245): the
\* player thread calls my_after, which schedules real_play on the loop
SongEnds(p) ==
    /\ music.playing # NoSong
    /\ music.proc[p].pc = "idle"
    /\ music' = [music EXCEPT !.playing = NoSong, !.proc[p].pc = "pending"]
    /\ UNCHANGED <<sem, bucket, now, verdict, job, fs, wrote, mon, audio, info>>

\* lines 174-180: real_play of the after callback pops the head of the
\* queue into state.song, or clears state.song when the queue is empty
RealPlayPop(p) ==
    /\ music.proc[p].pc = "pending"
    /\ music' =
          IF music.queue = <<>>
          THEN [music EXCEPT !.proc[p] = IdleProc, !.song = NoSong]
          ELSE [music EXCEPT !.proc[p] = [pc |-> "probe", song |-> Head(music.queue)],
                             !.queue = Tail(@),
                             !.song = Head(music.queue)]
    /\ UNCHANGED <<sem, bucket, now, verdict, job, fs, wrote, mon, audio, info>>

\* lines 229-238: clearqueue, which passes audio_playing
ClearQueue ==
    /\ music.connected
    /\ music.playing # NoSong
    /\ music.queue # <<>>
    /\ music' = [music EXCEPT !.queue = <<>>]
    /\ UNCHANGED <<sem, bucket, now, verdict, job, fs, wrote, mon, audio, info>>

\* lines 249-256 and 72-75: disconnect with an empty queue, then cleanup();
\* the player that is stopped calls my_after
Disconnect(p) ==
    /\ music.connected
    /\ music.queue = <<>>
    /\ music.proc[p].pc = "idle"
    /\ music' = [music EXCEPT !.connected = FALSE, !.song = NoSong,
                              !.playing = NoSong,
                              !.proc[p].pc =
                                 IF music.playing # NoSong THEN "pending" ELSE @]
    /\ UNCHANGED <<sem, bucket, now, verdict, job, fs, wrote, mon, audio, info>>

\* lines 262-271 and 72-75: the last member left the channel: the voice
\* client is disconnected and cleanup() clears state.song and the queue
OnVoiceStateUpdate(p) ==
    /\ music.connected
    /\ music.proc[p].pc = "idle"
    /\ music' = [music EXCEPT !.connected = FALSE, !.song = NoSong,
                              !.playing = NoSong, !.queue = <<>>,
                              !.proc[p].pc =
                                 IF music.playing # NoSong THEN "pending" ELSE @]
    /\ UNCHANGED <<sem, bucket, now, verdict, job, fs, wrote, mon, audio, info>>

\* the music cog: play commands, after callbacks, clearqueue and disconnects
NextMusic ==
    \/ Join
    \/ \E p \in Procs : PlayInvoke(p)
    \/ \E p \in Procs : PlayCheck(p)
    \/ \E p \in Procs, ok \in BOOLEAN : PlayQueued(p, ok)
    \/ \E p \in Procs, ok \in BOOLEAN : PlayNow(p, ok)
    \/ \E p \in Procs : RealPlayStart(p)
    \/ \E p \in Procs : SongEnds(p)
    \/ \E p \in Procs : RealPlayPop(p)
    \/ ClearQueue
    \/ \E p \in Procs : Disconnect(p)
    \/ \E p \in Procs : OnVoiceStateUpdate(p)

SpecMusic == Init /\ [][NextMusic]_vars

-----------------------------------------------------------------------------
(* Properties *)

\* the jobs between admission and the release of the semaphore
Holding == {"validate", "ytdlp", "inline", "upload", "reply", "cleanup", "release"}
ActiveSet == {c \in Ctx : job[c].pc \in Holding}

\* the job ended in a failure of some class
JobFailed(j) == j.err # "none" \/ j.out = "CatboxError"

\* C1: when a download job has left its finally block, by any exit path, no
\* file that the job wrote is left in the scratch directory.
C1_ScratchCleanOnExit ==
    \A c \in Ctx : job[c].pc = "release" => wrote[c] = {}

\* C2: at most one job is between admission and release; a request that
\* arrives while a job is active is answered Busy at once and leaves no
\* trace: nothing is queued, no job is started.
C2_MutualExclusion ==
    [][/\ Cardinality(ActiveSet') <= 1
       /\ \A u \in Users :
             (ActiveSet # {} /\ Invoke(Ctx, u)) =>
                 (verdict' = "Busy" /\ UNCHANGED <<sem, bucket, job, mon, fs, wrote>>)
      ]_vars

C2_Witness == ActiveSet # {} /\ verdict = "Busy"

\* C3: the semaphore is released only after the finally block has run: while
\* a job is anywhere before the end of its finally block the semaphore is
\* taken (so nobody is admitted), and when the semaphore is about to be
\* released, which is what lets the next job in, the job is marked finished
\* and no scratch file of the job exists any more.
C3_ReleaseAfterCleanup ==
    \A c \in Ctx :
       /\ job[c].pc \in Holding => sem < Number
       /\ job[c].pc \in Holding \ {"release"} => ~job[c].finished
       /\ job[c].pc = "release" =>
             (job[c].finished /\ \A f \in Files : f \in wrote[c] => f \notin fs)

\* C5: after a download job ended in a failure of any class, the requester
\* is not on cooldown: the next request would pass the cooldown check.
C5_FailureResetsCooldown ==
    \A c \in Ctx :
       (job[c].pc = "release" /\ JobFailed(job[c])) =>
           ~RateLimited(bucket[job[c].author], now)

\* C7: the delivery branch depends on the size of the artifact alone:
\* up to 25 MiB the file is attached, above it and up to 1 GiB it is
\* uploaded, above 1 GiB an ArtemisError is raised and nothing is uploaded.
C7_TierBySize ==
    \A c \in Ctx :
       job[c].size # NoSize =>
          /\ job[c].size <= 25 * 1024 * 1024 <=> job[c].pc = "inline"
          /\ (25 * 1024 * 1024 < job[c].size /\ job[c].size <= 1024 * 1024 * 1024)
                <=> job[c].pc = "upload"
          /\ job[c].size > 1024 * 1024 * 1024 <=>
                (job[c].pc = "cleanup" /\ job[c].err = "ArtemisError")

C7_Witness ==
    \E c \in Ctx : job[c].pc = "upload" /\ job[c].size = 1024 * 1024 * 1024

\* C9: a monitor task that has terminated has left no status message behind.
C9_NoStaleStatus ==
    \A c \in Ctx : mon[c].pc \in {"done", "dead"} => mon[c].msg # "posted"

\* C4: no error path leaves the guard held. The semaphore is taken exactly
\* while a job is between admission and release, and every job that holds
\* it gives it back, whatever error ended the job.
C4_GuardNeverLeftHeld ==
    /\ [](sem = Number - Cardinality(ActiveSet))
    /\ (ActiveSet # {}) ~> (sem = Number)

C4_Witness ==
    \E c \in Ctx :
       job[c].pc = "release" /\ job[c].err = "Exception" /\ job[c].finished

\* the requester u was admitted at bucket[u].window, the cooldown was not
\* reset since, and the 30 seconds are not over
InCooldown(u) == bucket[u].tokens < Rate /\ now < bucket[u].window + Per

\* C6 as claimed: a requester on cooldown is answered CooldownActive on
\* every request, whether or not a job is active.
C6_CooldownWhateverTheLock ==
    [][\A u \in Users :
          (Invoke({1}, u) /\ InCooldown(u)) => verdict' = "Cooldown"]_vars

\* C6 as amended: a requester on cooldown is refused on every request, with
\* CooldownActive when no job is active and with Busy when one is; a
\* requester whose own bucket is not rate limited is never answered
\* CooldownActive, whatever the buckets of the others are.
C6_CooldownPerRequester ==
    [][\A u \in Users :
          Invoke({1}, u) =>
             /\ InCooldown(u) =>
                   /\ verdict' = IF ActiveSet = {} THEN "Cooldown" ELSE "Busy"
                   /\ job' = job
             /\ (bucket[u].tokens = Rate \/ now > bucket[u].window + Per) =>
                   verdict' # "Cooldown"]_vars

C6_Witness ==
    \E u \in Users :
       /\ verdict = "Cooldown"
       /\ ActiveSet = {}
       /\ bucket[u].window = 0 /\ bucket[u].tokens < 0
       /\ now = TickStep

\* the phases of a job, in their order
Rank(j) ==
    CASE j.pc = "validate" -> 1
      [] j.pc = "ytdlp" -> 2
      [] j.pc \in {"inline", "upload", "reply"} -> 3
      [] j.pc \in {"cleanup", "release", "done"} -> 4
      [] OTHER -> 0

\* a step of job c that raises an exception
FailStep(c) == JobStep(c) /\ job'[c].pc = "cleanup" /\ job'[c].err # "none"

\* C8: within one job the phase never goes back, `state` never returns to
\* "downloading", `finished` is never cleared, run_ytdlp is called at most
\* once, and in every phase a step that fails the job is possible.
C8_ForwardOnly ==
    /\ [][\A c \in Ctx :
            (job[c].pc # "idle" /\ job'[c].pc # "idle") =>
               /\ Rank(job'[c]) >= Rank(job[c])
               /\ job[c].finished => job'[c].finished
               /\ (job[c].state = "uploading" /\ job'[c].pc # "done") =>
                     job'[c].state = "uploading"
               /\ job'[c].runs <= 1]_vars
    /\ [](\A c \in Ctx :
            (LoopFree /\ Rank(job[c]) \in {1, 2, 3}) => ENABLED FailStep(c))

C8_Witness ==
    \E c \in Ctx :
       /\ job[c].pc = "cleanup" /\ job[c].err # "none"
       /\ job[c].state = "uploading" /\ job[c].runs = 1

\* a step of the monitor task of context c
MonitorStep(c) ==
    mon[c].pc # "none" /\ mon'[c] # mon[c] /\ mon'[c].pc # "none"

\* C10: the monitor only observes. No step of a monitor task changes the
\* job, the scratch directory, the semaphore or a cooldown bucket, and the
\* next step of a job is possible whatever its monitor does: runs, waits,
\* has failed or has ended.
C10_MonitorObserves ==
    /\ [][\A c \in Ctx :
            MonitorStep(c) => UNCHANGED <<sem, bucket, job, fs, wrote, verdict>>]_vars
    /\ [](\A c \in Ctx :
            (LoopFree /\ job[c].pc \in Holding) => ENABLED JobStep(c))

C10_Witness ==
    \E c \in Ctx :
       mon[c].pc = "dead" /\ job[c].pc = "release" /\ job[c].out = "Inline"

\* the number of jobs whose yt-dlp thread is running: the writers of
\* data/temp
Writers ==
    Cardinality({c \in Ctx : job[c].pc = "ytdlp"}) +
    (IF audio.pc = "ytdlp" THEN 1 ELSE 0)

\* C11: at any instant at most one job is writing to the scratch
\* directory: download and dlaudio never run their yt-dlp thread at the
\* same time.
C11_OneScratchWriter == Writers <= 1

\* C12: a trim window whose end is not after its start, or that is longer
\* than 3600 s, is rejected by the validation with a validation error:
\* run_ytdlp is not called, the monitor task is not created and nothing is
\* written. A window of exactly 3600 s is not rejected for its length: with
\* a good URL and no format flag the job goes on to the extraction.
C12_TrimPlannerRejects ==
    [][\A c \in Ctx, url \in UrlInputs, fmt \in BOOLEAN, trim \in TrimInputs :
          (Len(trim) = 2 /\ Validate(c, url, trim, fmt)) =>
             /\ (trim[2] <= trim[1] \/ trim[2] - trim[1] > Sec(3600)) =>
                   /\ job'[c].pc = "cleanup" /\ job'[c].err \in ArtemisErrors
                   /\ job'[c].runs = 0
                   /\ mon'[c].pc = "none"
                   /\ fs' = fs
             /\ trim[2] - trim[1] = Sec(3600) =>
                   /\ job'[c].out # "The trim selection is too long (> 1 hour)."
                   /\ (url \in {"public", "youtube"} /\ ~fmt) =>
                         job'[c].pc = "ytdlp"]_vars

\* the request has been validated
Planned == info.stage \in {"invalid", "resolve", "accepted", "rejected"}
\* match_filter has been applied to the descriptor
Filtered == info.stage \in {"accepted", "rejected"}

\* C13: a request with a format override and a trim window is rejected
\* with a validation error and never reaches the extraction; a format
\* override without a trim window replaces the default format selection.
C13_FormatExcludesTrim ==
    /\ (Planned /\ info.fmt /\ info.trim # NoTrim) =>
          (info.stage = "invalid" /\ ErrorClass(info.reason) \in ArtemisErrors)
    /\ (Planned /\ info.fmt /\ info.trim = NoTrim /\ info.stage # "invalid") =>
          info.format = "override"

\* the descriptor has no duration and no size
NothingKnown(d) ==
    d.duration = None /\ d.filesize = None /\ d.filesize_approx = None

\* C14 as claimed: an untrimmed request whose descriptor has neither a
\* duration nor a size is rejected with "Failed to extract duration and
\* filesize."
C14_UnknownMetadataRejected ==
    (Filtered /\ info.trim = NoTrim /\ NothingKnown(info.d)) =>
        (info.stage = "rejected"
         /\ info.reason = "Failed to extract duration and filesize.")

\* C14 as amended: an untrimmed request whose descriptor has neither a
\* duration nor a size, is not live and does not come with the owner
\* bypass is rejected with "Failed to extract duration and filesize."
C14_UnknownMetadataRejectedUnlessLiveOrBypass ==
    (/\ Filtered /\ info.trim = NoTrim /\ NothingKnown(info.d)
     /\ info.d.is_live # <<TRUE>>
     /\ ~(info.url = "sudo" /\ info.owner)) =>
        (info.stage = "rejected"
         /\ info.reason = "Failed to extract duration and filesize.")

C14_Witness ==
    /\ info.stage = "rejected" /\ info.trim = NoTrim /\ NothingKnown(info.d)
    /\ info.d.is_live = <<FALSE>> /\ info.url = "sudo" /\ ~info.owner
    /\ info.reason = "Failed to extract duration and filesize."

\* the size of the descriptor: the exact one when known, else the estimate
KnownSize(d) == IF d.filesize # None THEN d.filesize ELSE d.filesize_approx

\* C15: an untrimmed, non-live, non-bypass request with a known size or a
\* known duration is rejected exactly when the known size lies outside
\* (0, 1 GiB], as too big, or the known duration exceeds 3600 s, as too
\* long; 1 GiB and 3600 s are accepted.
C15_LimitsExact ==
    LET d == info.d
        size == KnownSize(d)
        tooBig == size # None /\ (size[1] <= 0 \/ size[1] > 1024 * 1024 * 1024)
        tooLong == d.duration # None /\ d.duration[1] > 3600
    IN  (/\ Filtered /\ info.trim = NoTrim
         /\ d.is_live # <<TRUE>>
         /\ ~(info.url = "sudo" /\ info.owner)
         /\ (size # None \/ d.duration # None)) =>
            /\ info.stage = "rejected" <=> (tooBig \/ tooLong)
            /\ tooBig => info.reason = "The video is too big (> 1 GB)."
            /\ (tooLong /\ ~tooBig) => info.reason = "The video is too long (> 1 hour)."

\* C16: with a trim window the filter applies no duration or size check:
\* a trimmed request that is not live is accepted whatever the duration
\* and the size of the descriptor are, unknown or over the limits.
C16_TrimSkipsLimits ==
    (Filtered /\ info.trim # NoTrim /\ info.d.is_live # <<TRUE>>) =>
        info.stage = "accepted"

C16_Witness ==
    /\ info.stage = "accepted" /\ info.trim # NoTrim /\ ~info.owner
    /\ info.d.duration = <<7200>>
    /\ info.d.filesize = <<MAX_LITTERBOX_SIZE + 1>>

\* C17 as claimed: every live descriptor is rejected with "Streams are not
\* supported.", with or without a trim window, whatever its duration and
\* size.
C17_LiveRejected ==
    (Filtered /\ info.d.is_live = <<TRUE>>) =>
        (info.stage = "rejected" /\ info.reason = "Streams are not supported.")

\* C17 as amended: every live descriptor is rejected with "Streams are
\* not supported.", with or without a trim window, whatever its duration
\* and size, unless the request comes with the owner bypass.
C17_LiveRejectedUnlessBypass ==
    (Filtered /\ info.d.is_live = <<TRUE>> /\ ~(info.url = "sudo" /\ info.owner)) =>
        (info.stage = "rejected" /\ info.reason = "Streams are not supported.")

C17_Witness ==
    /\ info.stage = "rejected" /\ info.d.is_live = <<TRUE>>
    /\ info.trim # NoTrim /\ info.d.duration = <<120>>
    /\ info.reason = "Streams are not supported."

\* the checks of the policy, written from the verdicts they give
PolicyVerdict(trim, d) ==
    IF d.is_live = <<TRUE>> THEN "Streams are not supported."
    ELSE IF trim # NoTrim THEN "ok"
    ELSE LimitsReason(d)

\* C18: for a requester who is not the owner the marker "#_sudo" changes
\* nothing: the verdict on the URL with the marker is the verdict on the
\* same request and descriptor without it, and it is the verdict of the
\* policy checks.
C18_BypassOnlyForOwner ==
    (Filtered /\ ~info.owner /\ info.url = "sudo") =>
        /\ info.reason = MatchFilter("public", info.owner, info.trim, info.d)
        /\ info.reason = PolicyVerdict(info.trim, info.d)

C18_Witness ==
    /\ info.stage = "rejected" /\ ~info.owner /\ info.url = "sudo"
    /\ info.d.duration = <<7200>> /\ info.d.filesize = None

\* C19: when run_ytdlp returns a descriptor but the file id.ext is not in
\* the scratch directory, the job fails with "Internal Error: File ... does
\* not exist.", which is not the error of a failed extraction; no delivery
\* is attempted, and the error is never held by a job that delivers.
C19_MissingFileIsInternalError ==
    /\ [][\A c \in Ctx, size \in Sizes :
            (AfterYt(c, "ok", size) /\ "out" \notin fs) =>
               /\ job'[c].pc = "cleanup"
               /\ job'[c].err = "ArtemisError"
               /\ job'[c].out = "Internal Error: File does not exist."
               /\ job'[c].out # "extraction failed"
               /\ job'[c].size = NoSize]_vars
    /\ [](\A c \in Ctx :
            job[c].out = "Internal Error: File does not exist." =>
               job[c].pc \in {"cleanup", "release"})

C19_Witness ==
    \E c \in Ctx :
       /\ job[c].pc = "cleanup" /\ job[c].state = "uploading"
       /\ job[c].out = "Internal Error: File does not exist."
       /\ "out" \notin fs

\* the URLs whose requests go to localhost or to a loopback, link-local or
\* private-range address
InternalTargets ==
    {"private", "loopback", "linklocal", "localhost", "short", "noscheme"}

\* C20: a request whose URL points at localhost or at a literal loopback,
\* link-local or private-range address is rejected with SSRFError before
\* run_ytdlp is called, before the monitor is created and before anything
\* is written to the scratch directory.
C20_SsrfRejected ==
    [][\A c \in Ctx, url \in InternalTargets, trim \in TrimInputs, fmt \in BOOLEAN :
          Validate(c, url, trim, fmt) =>
             /\ job'[c].pc = "cleanup" /\ job'[c].err = "SSRFError"
             /\ job'[c].runs = 0
             /\ mon'[c].pc = "none"
             /\ fs' = fs]_vars

\* C21: a trimmed job, whatever its window and also when it starts at 0
\* seconds, that fails with "requested format not available" is reported
\* as "Segmented streams are not supported with a trim selection."; an
\* untrimmed job with the same failure keeps the message.
C21_TrimmedFormatErrorRereported ==
    (info.stage = "failed" /\ info.raised = "requested format not available") =>
        /\ info.trim # NoTrim =>
              info.reason = "Segmented streams are not supported with a trim selection."
        /\ info.trim = NoTrim => info.reason = info.raised

\* C22: a job whose resolver returned a playlist ends with the first entry
\* delivered and with no file of the job left in the scratch directory.
C22_PlaylistFirstEntry ==
    \A c \in Ctx :
       (job[c].pc = "release" /\ job[c].path = PlaylistPath) =>
           (job[c].out \in {"Inline", "RemoteTemporary"} /\ wrote[c] = {})

\* C24: cleanup is idempotent. The finally clause on a path whose file is
\* not there (deleted already, or never created) raises nothing and changes
\* no file and no outcome, and after any cleanup a second cleanup of the
\* same path raises nothing and leaves the files as the first left them.
C24_CleanupIdempotent ==
    [][\A c \in Ctx :
          Cleanup(c) =>
             /\ ~UnlinkRaises(fs', job[c])
             /\ Unlinked(fs', job[c]) = fs'
             /\ job[c].path \notin fs =>
                   /\ fs' = fs
                   /\ job'[c].err = job[c].err
                   /\ job'[c].out = job[c].out]_vars

C24_Witness ==
    \E c \in Ctx :
       /\ job[c].pc = "release" /\ job[c].path = "out" /\ "out" \notin fs
       /\ job[c].out = "Internal Error: File does not exist."
       /\ job[c].err = "ArtemisError"

\* the rejections of the policy: those of the validation (lines 436, 470,
\* 482, 484, 486) and those of match_filter
Rejections ==
    {"No URL provided.", "Invalid trim selection.",
     "The trim selection is too long (> 1 hour).",
     "The trim selection cannot be negative or zero.",
     "Format choice is not supported with a trim selection."} \cup FilterReasons

C26_ArtifactKeptDuringDelivery ==
    \A c \in Ctx : job[c].pc \in {"inline", "upload"} => job[c].path \in fs

\* the contexts whose monitor task is running
LiveMonitors == {c \in Ctx : mon[c].pc \notin {"none", "done", "dead"}}

\* C27: there is at most one live monitor task at any time, and while a job
\* is between admission and release the monitor of every earlier job has
\* ended and has removed its status message.
C27_OneLiveMonitor ==
    /\ Cardinality(LiveMonitors) <= 1
    /\ \A c \in Ctx, d \in Ctx :
          (c # d /\ job[c].pc \in Holding) =>
              (d \notin LiveMonitors /\ mon[d].msg # "posted")

\* C28: the validation rejects a window only for a parse failure, for
\* end <= start or for end - start > 3600 s: with a URL that passes the
\* checks of the URL and no format flag, every window of two bounds with
\* 0 < end - start <= 3600 s, those shorter than a second included, is
\* accepted and the job goes on to the extraction.
C28_TrimPlannerAcceptsTheRest ==
    [][\A c \in Ctx, url \in UrlInputs, trim \in TrimInputs :
          (/\ Validate(c, url, trim, FALSE)
           /\ ~CheckForSsrf(url) /\ url # "empty"
           /\ Len(trim) = 2
           /\ 0 < trim[2] - trim[1] /\ trim[2] - trim[1] <= Sec(3600)) =>
              job'[c].pc = "ytdlp"]_vars

\* C29: in the music queue no accepted song is lost: no song that play
\* appended is discarded by a later append (a play on a full queue is
\* refused instead), every song that real_play popped is started unless a
\* disconnect came first, the songs are popped in the order they were
\* appended, and the queue never holds more than 10 songs.
C29_NoSongLost ==
    /\ [](Len(music.queue) <= QueueCap)
    /\ [][\A p \in Procs :
            /\ PlayQueued(p, TRUE) => Len(music.queue) < QueueCap
            /\ (RealPlayStart(p) /\ music.connected) =>
                   music'.playing = music.proc[p].song
            /\ RealPlayPop(p) =>
                   \A i \in 1..Len(music'.queue) :
                      music'.queue[i] > music'.proc[p].song]_vars

\* a real_play is scheduled or is between its pop and voice_client.play
Starting == \E p \in Procs : music.proc[p].pc \in {"pending", "probe"}

\* C30: real_play never starts a song while another one is playing, and
\* whenever no real_play is under way state.song is the song that is
\* playing, or None when nothing plays.
C30_SongIsThePlaying ==
    /\ [](~Starting => music.song = music.playing)
    /\ [][\A p \in Procs :
            (RealPlayStart(p) /\ music.connected) => music.playing = NoSong]_vars

====
